---- MODULE Spec2Model ----
(***************************************************************************)
(* The multi-source search orchestrator of smart-shopper                   *)
(* (docs/Smart-Shopper-AI/src/mcp-servers/multi-source/index.ts), with the *)
(* composite cache and the token buckets of lib/utils.ts and the three     *)
(* registered adapters.                                                    *)
(*                                                                         *)
(* Optional values (error?, enrichment | null, T | undefined) are          *)
(* sequences of length 0 or 1.  Time is Date.now() in milliseconds.        *)
(* An async function runs atomically from one await that has to wait for   *)
(* the outside world to the next: every action below is one event (a call  *)
(* of the entry point, an upstream answer, a timer, a clock tick) followed *)
(* by all the code the event loop runs because of it.                      *)
(***************************************************************************)
EXTENDS Integers, Sequences, FiniteSets, TLC

VARIABLES
    now,            \* Date.now()
    cache,          \* Cache.cache of the composite cache: key -> [value, expires]
    bucket,         \* per adapter: [tokens, lastRefill] of its tokenBucket closure
    pc,             \* where the current multiSourceSearch call stands
    query,          \* its query argument
    options,        \* its options argument
    promises,       \* searchPromises: one pTimeout promise per dispatched adapter
    awaited,        \* sequentialSearch: index of the promise its loop awaits
    collected,      \* sequentialSearch: results
    startTime,      \* startTime of the call
    searchResults,  \* searchResults, once the searches are collected
    mergedProducts, \* mergedProducts, once merged
    enrichCalled,   \* whether sources.perplexity.enrich was called by this call
    result,         \* the value the call returned (<<>>: undefined)
    error,          \* the Error the call rejected with
    fromCache,      \* whether the call took the cache-hit path
    calls,          \* number of calls made so far
    advances,       \* number of clock steps taken so far
    bucketAtCall,   \* history: bucket when the current call was made
    prev,           \* history: the previous call, once it has completed
    registry,       \* Source.priority of each entry of `sources`
    arrivals,       \* history: the indices of searchPromises in the order they settled
    libCall,        \* history: the last direct call of a Cache or tokenBucket method
    late,           \* history: the searches whose adapter call settled after the timer
    grants,         \* history: the direct calls of consume so far
    cacheAtCall     \* history: cache when the current call was made

vars == <<now, cache, bucket, pc, query, options, promises, awaited, collected,
          startTime, searchResults, mergedProducts, enrichCalled, result, error,
          fromCache, calls, advances, bucketAtCall, prev, registry, arrivals,
          libCall, late, grants, cacheAtCall>>

----------------------------------------------------------------------------
(* Bounds of the model *)

\* calls of multiSourceSearch in one run
MaxCalls == 2
\* clock steps in one run
MaxAdvances == 2
\* products in one upstream response
MaxProducts == 2
\* largest maxResults a caller passes
MaxMaxResults == 2
\* products in one result passed to mergeResults directly
MergeMaxProducts == 3
\* largest maxResults passed to mergeResults directly
MergeMaxResults == 6
\* direct calls of the methods of a tokenBucket or a Cache in one run
MaxLibCalls == 4
\* largest count passed to consume
MaxCount == 3

----------------------------------------------------------------------------
(* Sequence helpers *)

Min(a, b) == IF a < b THEN a ELSE b

\* Array.prototype.slice(0, n) for n >= 0
Take(s, n) == SubSeq(s, 1, Min(n, Len(s)))

RECURSIVE SeqSum(_)
SeqSum(s) == IF s = <<>> THEN 0 ELSE Head(s) + SeqSum(Tail(s))

----------------------------------------------------------------------------
(* The source registry *)

\* the keys of `sources`
Registered == {"serpapi", "search1api", "perplexity"}

\* Source.priority of each adapter
SourcePriority == [serpapi |-> 1, search1api |-> 2, perplexity |-> 3]

\* Source.name of each adapter
SourceName == [serpapi |-> "Google Shopping", search1api |-> "Smart Shopper Index",
               perplexity |-> "Product Enrichment"]

\* source.search is defined
HasSearch(id) == id \in {"serpapi", "search1api"}

\* source.enrich is defined
HasEnrich(id) == id = "perplexity"

\* the priority the sorts use: (source?.priority || 99)
SortKey(id) ==
    IF id \in Registered /\ registry[id] # 0 THEN registry[id] ELSE 99

\* tokenBucket options of each adapter
MaxTokens == [serpapi |-> 10, search1api |-> 20, perplexity |-> 5]
RefillInterval == [serpapi |-> 60000 \div 10, search1api |-> 60000 \div 20,
                   perplexity |-> 60000 \div 5]

\* ttl of the composite cache, in seconds
CacheTtl == 300

----------------------------------------------------------------------------
(* Cache<T> of lib/utils.ts, as functions of the Map `c` and the time `t` *)

\* a cache whose entries are live only once they have expired
CacheHasInverted(c, key, t) == key \in DOMAIN c /\ c[key].expires < t

\* Cache.has(key): the value it returns
CacheHas(c, key, t) == key \in DOMAIN c /\ ~(c[key].expires < t)

\* reads that leave an expired entry where it is
CacheKeep(c, key, t) == c

\* Cache.has(key) and Cache.get(key): the Map they leave (an expired entry is deleted)
CacheEvict(c, key, t) ==
    IF key \in DOMAIN c /\ c[key].expires < t
    THEN [k \in DOMAIN c \ {key} |-> c[k]]
    ELSE c

\* Cache.get(key): the value it returns
CacheGet(c, key, t) ==
    IF key \notin DOMAIN c THEN <<>>
    ELSE IF c[key].expires < t THEN <<>>
    ELSE <<c[key].value>>

\* Cache.set(key, value) without a custom ttl
CacheSet(c, key, value, t) ==
    [k \in DOMAIN c \cup {key} |->
        IF k = key THEN [value |-> value, expires |-> t + CacheTtl * 1000] ELSE c[k]]

\* Cache.set(key, value, ttl): ttl is <<>> when the caller passes none
CacheSetTtl(c, key, value, ttl, t) ==
    LET seconds == IF ttl = <<>> \/ ttl[1] = 0 THEN CacheTtl ELSE ttl[1]
    IN  [k \in DOMAIN c \cup {key} |->
            IF k = key THEN [value |-> value, expires |-> t + seconds * 1000] ELSE c[k]]

----------------------------------------------------------------------------
(* tokenBucket of lib/utils.ts, as functions of the closure state `b` *)

\* a refill that leaves lastRefill where it is
RefillKeepsClock(id, b, t) ==
    LET elapsedTime == t - b.lastRefill
        tokensToAdd == elapsedTime \div RefillInterval[id]
    IN  IF tokensToAdd > 0
        THEN [tokens     |-> Min(MaxTokens[id], b.tokens + tokensToAdd),
              lastRefill |-> b.lastRefill]
        ELSE b

\* refillTokens()
RefillTokens(id, b, t) ==
    LET elapsedTime == t - b.lastRefill
        tokensToAdd == elapsedTime \div RefillInterval[id]
    IN  IF tokensToAdd > 0
        THEN [tokens     |-> Min(MaxTokens[id], b.tokens + tokensToAdd),
              lastRefill |-> t - (elapsedTime % RefillInterval[id])]
        ELSE b

\* consume(count): the value it resolves to
ConsumeGranted(id, b, t, count) == RefillTokens(id, b, t).tokens >= count

\* a consume that takes the tokens whether the bucket holds them or not
ConsumeUnchecked(id, b, t, count) ==
    [RefillTokens(id, b, t) EXCEPT !.tokens = @ - count]

\* consume(count): the closure state it leaves
Consume(id, b, t, count) ==
    LET r == RefillTokens(id, b, t)
    IN  IF r.tokens >= count THEN [r EXCEPT !.tokens = @ - count] ELSE r

----------------------------------------------------------------------------
(* What the adapters return *)

\* a product as an adapter standardizes it from the upstream answer
Product(id, src) ==
    [id |-> id, source |-> src, description |-> "", enriched |-> FALSE,
     citations |-> <<>>]

\* search(): the result for an upstream answer listing the product ids `ids`
SearchSuccess(src, ids, latency) ==
    [products          |-> [i \in 1..Len(ids) |-> Product(ids[i], src)],
     totalCount        |-> Len(ids),
     source            |-> src,
     sourceDisplayName |-> SourceName[src],
     latency           |-> latency,
     error             |-> <<>>]

\* a catch block that keeps a product
SearchFailureWithProducts(src, code) ==
    [products          |-> <<Product(1, src)>>,
     totalCount        |-> 1,
     source            |-> src,
     sourceDisplayName |-> SourceName[src],
     latency           |-> 0,
     error             |-> <<[message |-> "upstream failure", code |-> code,
                              source |-> src]>>]

\* search(): the result of its catch block
SearchFailure(src, code) ==
    [products          |-> <<>>,
     totalCount        |-> 0,
     source            |-> src,
     sourceDisplayName |-> SourceName[src],
     latency           |-> 0,
     error             |-> <<[message |-> "upstream failure", code |-> code,
                              source |-> src]>>]

\* the value the pTimeout fallback returns when fallbackOnTimeout is set
TimeoutResult(src, timeoutMs) ==
    [products          |-> <<>>,
     totalCount        |-> 0,
     source            |-> src,
     sourceDisplayName |-> SourceName[src],
     latency           |-> timeoutMs,
     error             |-> <<[message |-> "Search timeout", code |-> "TIMEOUT",
                              source |-> src]>>]

\* enrich(): the result for an upstream answer
EnrichSuccess(content, t) ==
    [content   |-> content,
     citations |-> IF content = "" THEN <<>> ELSE <<"citation">>,
     latency   |-> 0,
     timestamp |-> t,
     error     |-> <<>>]

\* enrich(): the result of its catch block
EnrichFailure(code, t) ==
    [content   |-> "",
     citations |-> <<>>,
     latency   |-> 0,
     timestamp |-> t,
     error     |-> <<[message |-> "upstream failure", code |-> code,
                      source |-> "perplexity"]>>]

\* an enhancement that annotates every product
EnhanceEvery(products, enrichment) ==
    [k \in 1..Len(products) |->
        [products[k] EXCEPT !.description = enrichment.content,
                            !.enriched = TRUE,
                            !.citations = enrichment.citations]]

\* enhanceProducts(products, enrichment)
EnhanceProducts(products, enrichment) ==
    IF enrichment.content = "" \/ Len(products) = 0
    THEN products
    ELSE [products EXCEPT ![1] = [@ EXCEPT !.description = enrichment.content,
                                           !.enriched = TRUE,
                                           !.citations = enrichment.citations]]

\* the Error search() throws when its bucket denies the token
RateLimitError(src) ==
    [message |-> "RATE_LIMIT_EXCEEDED", source |-> src, code |-> <<>>]

\* the Error the pTimeout fallback throws when fallbackOnTimeout is not set
TimeoutError(src) ==
    [message |-> "search timeout", source |-> src, code |-> <<>>]

\* the Error thrown when no requested source is registered
NoSourcesError ==
    [message |-> "No valid sources selected for search", source |-> "", code |-> <<>>]

\* handleError(error, sourceCode) of lib/utils.ts: the parts of the message of
\* the Error it makes, `${sourceCode}_${errorCode}: ${errorMessage}`
HandleError(e, sourceCode) ==
    [sourceCode   |-> sourceCode,
     errorCode    |-> IF e.code = <<>> THEN "ERR_UNKNOWN" ELSE e.code[1],
     errorMessage |-> [message |-> e.message, source |-> e.source]]

----------------------------------------------------------------------------
(* mergeResults *)

\* Array.prototype.sort with a comparator on keys: stable, ascending; keys[i] is
\* the key of s[i]
SortByKey(s, keys) ==
    LET n == Len(s)
        Before(j, i) == keys[j] < keys[i] \/ (keys[j] = keys[i] /\ j < i)
        Rank(i) == Cardinality({j \in 1..n : Before(j, i)}) + 1
    IN  [p \in 1..n |-> s[CHOOSE i \in 1..n : Rank(i) = p]]

\* the guard of the interleave loop: index >= validResults.length * 100
IterationCap == 100

\* the filter of mergeResults
IsValidResult(r) == Len(r.products) > 0 /\ r.error = <<>>

ResultKey(r) == SortKey(r.source)

\* the valid results in the order they were handed in
ValidResultsUnsorted(results) == SelectSeq(results, IsValidResult)

\* validResults after the sort
ValidResults(results) ==
    LET valid == SelectSeq(results, IsValidResult)
    IN  SortByKey(valid, [i \in 1..Len(valid) |-> ResultKey(valid[i])])

\* the while loop of the interleave case, from one evaluation of its condition:
\* it runs its body for index, index + 1, ... until merged holds maxResults
\* products or the index after the body reaches validResults.length * 100, and the
\* body pushes the product at productIndex of the source at sourceIndex, if any
InterleaveLoop(validResults, merged, index, maxResults) ==
    IF ~(Len(merged) < maxResults) THEN merged
    ELSE
        LET n          == Len(validResults)
            last       == IF n * IterationCap - 1 > index THEN n * IterationCap - 1
                          ELSE index
            iterations == [k \in 1..(last - index + 1) |-> index + k - 1]
            Pushes(i)  == i \div n < Len(validResults[(i % n) + 1].products)
            pushing    == SelectSeq(iterations, Pushes)
            pushed     == Min(maxResults - Len(merged), Len(pushing))
        IN  merged \o [k \in 1..pushed |->
                         validResults[(pushing[k] % n) + 1].products[(pushing[k] \div n) + 1]]

\* a loop that stops after the first result
SequentialLoopFirst(validResults, merged, maxResults) ==
    IF validResults = <<>> THEN merged ELSE Head(validResults).products

\* the for loop of the sequential case
RECURSIVE SequentialLoop(_, _, _)
SequentialLoop(validResults, merged, maxResults) ==
    IF validResults = <<>> THEN merged
    ELSE LET merged2 == merged \o Head(validResults).products
         IN  IF Len(merged2) >= maxResults THEN merged2
             ELSE SequentialLoop(Tail(validResults), merged2, maxResults)

\* the cases of the switch of mergeResults, for at least two valid results
MergeByStrategy(validResults, strategy, maxResults) ==
    CASE strategy = "interleave" ->
            InterleaveLoop(validResults, <<>>, 0, maxResults)
      [] strategy = "sequential" ->
            Take(SequentialLoop(validResults, <<>>, maxResults), maxResults)
      [] strategy = "priority" ->
            Take(validResults[1].products, maxResults)

\* a default case that merges by priority
DefaultToPriority(strategy) == "priority"

\* the strategy the default case of the switch calls mergeResults again with
DefaultStrategy(strategy) == "interleave"

\* a merge that concatenates the valid results and cuts nothing
MergeResultsUncut(results, strategy, maxResults) ==
    SequentialLoop(SelectSeq(results, IsValidResult), <<>>,
                   MaxProducts * Len(results) + 1)

\* mergeResults(results, strategy, maxResults)
RECURSIVE MergeResults(_, _, _)
MergeResults(results, strategy, maxResults) ==
    LET unsorted == SelectSeq(results, IsValidResult)
    IN  IF Len(unsorted) = 0 THEN <<>>
        ELSE IF Len(unsorted) = 1 THEN Take(unsorted[1].products, maxResults)
        ELSE IF strategy \in {"interleave", "sequential", "priority"}
             THEN MergeByStrategy(ValidResults(results), strategy, maxResults)
             ELSE MergeResults(results, DefaultStrategy(strategy), maxResults)

----------------------------------------------------------------------------
(* The arguments of multiSourceSearch and the answers of the upstream services *)

Queries == {"tv"}

\* the arrays of source ids a caller passes; "search1" (the id of the search1api
\* source in config/sources.yaml) is no key of `sources`
SourceLists ==
    { <<"serpapi", "search1api">>,
      <<"perplexity", "search1api", "serpapi">>,
      <<"search1">> }

Strategies == {"interleave", "sequential", "priority", "newest"}

\* config.multi_source.timeoutMs
DefaultTimeoutMs == 800

AllOptions ==
    [sources           : SourceLists,
     parallel          : BOOLEAN,
     mergeStrategy     : Strategies,
     maxResults        : 1..MaxMaxResults,
     maxParallel       : {1, 3},
     timeoutMs         : {DefaultTimeoutMs},
     fallbackOnTimeout : BOOLEAN,
     includeEnrichment : BOOLEAN,
     no_cache          : BOOLEAN]

\* the options of the model's calls: the merge strategy and maxResults vary where
\* two sources are searched, and only there
Options ==
    {o \in AllOptions :
        \/ o.sources = <<"serpapi", "search1api">> /\ o.maxParallel = 3
        \/ o.mergeStrategy = "interleave" /\ o.maxResults = MaxMaxResults}

\* the product ids of an upstream answer with n products: the two product
\* services list their first product under the same id
UpstreamIds(src, n) ==
    [i \in 1..n |-> IF src = "serpapi" \/ i = 1 THEN i ELSE i + 1]

\* (error as any).code || 'UNKNOWN' of a failed upstream request
UpstreamErrorCodes == {"ECONNABORTED"}

\* response.data.content of an enrichment answer
EnrichContents == {"", "review summary"}

\* the time that passes between two calls of a session: the shortest refill
\* interval, the composite cache's time to live
IdleSteps == {RefillInterval["search1api"], CacheTtl * 1000}

----------------------------------------------------------------------------
(* multiSourceSearch *)

\* cacheKey: `multi-source-${query}-${JSON.stringify(options)}`
CacheKey(q, o) == <<q, o>>

IsRegistered(id) == id \in Registered

\* selectedSources
SelectedSources(o) ==
    LET known == SelectSeq(o.sources, IsRegistered)
    IN  Take(SortByKey(known, [i \in 1..Len(known) |-> SortKey(known[i])]),
             o.maxParallel)

\* the sources searchPromises is built from
SearchSources(o) == SelectSeq(SelectedSources(o), HasSearch)

\* the options of the calls of a session: searches of one source at most, or
\* else with the timeout fallback and without enrichment
SessionOptions ==
    {o \in Options :
        \/ Len(SearchSources(o)) <= 1
        \/ o.fallbackOnTimeout /\ ~o.includeEnrichment}

\* the requests of a session: a first request, and then the same request again,
\* with or without no_cache
SessionRequests ==
    IF calls = 0 THEN SessionOptions
    ELSE {[options EXCEPT !.no_cache = nc] : nc \in BOOLEAN}

\* one element of searchPromises right after source.search was called: search
\* has consumed its token or is about to throw
NewPromise(src, granted) ==
    IF granted
    THEN [source |-> src, state |-> "pending", value |-> <<>>, reason |-> <<>>]
    ELSE [source |-> src, state |-> "rejected", value |-> <<>>,
          reason |-> <<RateLimitError(src)>>]

\* the .map that builds searchPromises: every search is called, in order, and
\* each consumes from its adapter's bucket at once
RECURSIVE Dispatch(_, _, _)
Dispatch(srcs, b, t) ==
    IF srcs = <<>> THEN [bucket |-> b, promises |-> <<>>]
    ELSE LET id      == Head(srcs)
             granted == ConsumeGranted(id, b[id], t, 1)
             rest    == Dispatch(Tail(srcs), [b EXCEPT ![id] = Consume(id, @, t, 1)], t)
         IN  [bucket |-> rest.bucket,
              promises |-> <<NewPromise(id, granted)>> \o rest.promises]

\* sequentialSearch: its loop, run from promise idx as far as the promises settled
RECURSIVE SequentialSearch(_, _, _)
SequentialSearch(ps, idx, acc) ==
    IF idx > Len(ps) THEN [awaited |-> idx, collected |-> acc, done |-> TRUE]
    ELSE IF ps[idx].state = "pending"
         THEN [awaited |-> idx, collected |-> acc, done |-> FALSE]
    ELSE IF ps[idx].state = "fulfilled"
         THEN SequentialSearch(ps, idx + 1, Append(acc, ps[idx].value[1]))
    ELSE SequentialSearch(ps, idx + 1, acc)

\* the sources entry of the result for one search result
SourceInfo(r) ==
    [id      |-> r.source,
     name    |-> r.sourceDisplayName,
     count   |-> Len(r.products),
     latency |-> r.latency,
     error   |-> r.error]

\* the result object multiSourceSearch builds
MultiSourceResult(results, products, enrichment, st, t) ==
    [products   |-> products,
     totalCount |-> Len(products),
     sources    |-> [i \in 1..Len(results) |-> SourceInfo(results[i])],
     enrichment |-> enrichment,
     latency    |-> t - st,
     timestamp  |-> t]

\* a call that stores its result whatever no_cache says
CachesAlways(o) == TRUE

\* whether the result is cached
CachesResult(o) == ~o.no_cache

\* a call that stores only the results that hold products
FinalizeSkipsEmpty(q, o, st, results, products, enrichment, c) ==
    LET r == MultiSourceResult(results, products, enrichment, st, now)
    IN  /\ pc' = "returned"
        /\ result' = <<r>>
        /\ error' = <<>>
        /\ cache' = IF CachesResult(o) /\ products # <<>>
                    THEN CacheSet(c, CacheKey(q, o), r, now) ELSE c

\* from "Prepare final result" to the return
Finalize(q, o, st, results, products, enrichment, c) ==
    LET r == MultiSourceResult(results, products, enrichment, st, now)
    IN  /\ pc' = "returned"
        /\ result' = <<r>>
        /\ error' = <<>>
        /\ cache' = IF CachesResult(o) THEN CacheSet(c, CacheKey(q, o), r, now) ELSE c

\* a catch block that empties the cache
RejectClears(e, c) ==
    /\ pc' = "rejected"
    /\ result' = <<>>
    /\ error' = <<HandleError(e, "MSS")>>
    /\ cache' = <<>>

\* the catch block of multiSourceSearch
Reject(e, c) ==
    /\ pc' = "rejected"
    /\ result' = <<>>
    /\ error' = <<HandleError(e, "MSS")>>
    /\ cache' = c

\* an enrichment block that does not look at the merged products
WantsEnrichmentAlways(o, merged) == o.includeEnrichment

\* the condition of the enrichment block
WantsEnrichment(o, merged) ==
    o.includeEnrichment /\ Len(merged) > 0 /\ HasEnrich("perplexity")

\* from "Merge results" on, once searchResults is there: merge, call enrich (which
\* consumes its token or throws at once), and finish unless the enrichment is awaited
Collect(q, o, st, results, c, b) ==
    LET merged == MergeResults(results, o.mergeStrategy, o.maxResults)
    IN  /\ searchResults' = results
        /\ mergedProducts' = merged
        /\ IF WantsEnrichment(o, merged)
           THEN /\ enrichCalled' = TRUE
                /\ bucket' = [b EXCEPT !["perplexity"] = Consume("perplexity", @, now, 1)]
                /\ IF ConsumeGranted("perplexity", b["perplexity"], now, 1)
                   THEN /\ pc' = "enriching"
                        /\ result' = <<>>
                        /\ error' = <<>>
                        /\ cache' = c
                   ELSE Finalize(q, o, st, results, merged, <<>>, c)
           ELSE /\ enrichCalled' = FALSE
                /\ bucket' = b
                /\ Finalize(q, o, st, results, merged, <<>>, c)

\* the searches are still awaited
Wait(c, b) ==
    /\ pc' = "searching"
    /\ result' = <<>>
    /\ error' = <<>>
    /\ cache' = c
    /\ bucket' = b
    /\ searchResults' = <<>>
    /\ mergedProducts' = <<>>
    /\ enrichCalled' = FALSE

\* the call ends without having collected the searches
Fail(e, c, b) ==
    /\ Reject(e, c)
    /\ bucket' = b
    /\ searchResults' = <<>>
    /\ mergedProducts' = <<>>
    /\ enrichCalled' = FALSE

\* the first of the promises to have rejected
FirstRejected(ps) ==
    ps[CHOOSE i \in 1..Len(ps) :
          /\ ps[i].state = "rejected"
          /\ \A j \in 1..(i - 1) : ps[j].state # "rejected"]

\* a Promise.all that resolves to the values in the order the promises settled
AwaitAllByArrival(q, o, st, ps, c, b) ==
    /\ awaited' = 0
    /\ collected' = <<>>
    /\ IF \E i \in 1..Len(ps) : ps[i].state = "rejected"
       THEN Fail(FirstRejected(ps).reason[1], c, b)
       ELSE IF \A i \in 1..Len(ps) : ps[i].state = "fulfilled"
            THEN Collect(q, o, st, [k \in 1..Len(ps) |-> ps[arrivals'[k]].value[1]], c, b)
            ELSE Wait(c, b)

\* await Promise.all(searchPromises), after the promises changed to ps
AwaitAll(q, o, st, ps, c, b) ==
    /\ awaited' = 0
    /\ collected' = <<>>
    /\ IF \E i \in 1..Len(ps) : ps[i].state = "rejected"
       THEN Fail(FirstRejected(ps).reason[1], c, b)
       ELSE IF \A i \in 1..Len(ps) : ps[i].state = "fulfilled"
            THEN Collect(q, o, st, [i \in 1..Len(ps) |-> ps[i].value[1]], c, b)
            ELSE Wait(c, b)

\* await sequentialSearch(searchPromises), after the promises changed to ps
AwaitSequential(q, o, st, ps, idx, acc, c, b) ==
    LET loop == SequentialSearch(ps, idx, acc)
    IN  /\ awaited' = loop.awaited
        /\ collected' = loop.collected
        /\ IF loop.done
           THEN Collect(q, o, st, loop.collected, c, b)
           ELSE Wait(c, b)

\* "Execute searches"
Await(q, o, st, ps, idx, acc, c, b) ==
    IF o.parallel
    THEN AwaitAll(q, o, st, ps, c, b)
    ELSE AwaitSequential(q, o, st, ps, idx, acc, c, b)

\* a promise of searchPromises rejected while sequentialSearch awaits an earlier
\* one: no handler is attached to it yet
UnhandledRejection(o, ps) ==
    /\ ~o.parallel
    /\ \E i \in 1..Len(ps) :
          /\ ps[i].state = "pending"
          /\ \A k \in 1..(i - 1) : ps[k].state # "pending"
          /\ \E j \in (i + 1)..Len(ps) : ps[j].state = "rejected"

\* the process ends on the unhandled rejection (the default of Node 15 and later)
Crash(c, b) ==
    /\ pc' = "crashed"
    /\ result' = <<>>
    /\ error' = <<>>
    /\ cache' = c
    /\ bucket' = b
    /\ searchResults' = <<>>
    /\ mergedProducts' = <<>>
    /\ enrichCalled' = FALSE
    /\ awaited' = 1
    /\ collected' = <<>>

----------------------------------------------------------------------------
(* The state machine *)

\* a bucket holds all its tokens after construction and is empty after
\* maxTokens searches within one refill interval: a run starts from either
InitialTokens(id) == {0, MaxTokens[id]}

\* the process without its registry
InitProcess ==
    /\ now = 0
    /\ cache = <<>>
    /\ bucket \in [Registered -> [tokens : 0..20, lastRefill : {0}]]
    /\ \A id \in Registered : bucket[id].tokens \in InitialTokens(id)
    /\ pc = "idle"
    /\ query \in Queries
    /\ options = CHOOSE o \in Options : ~o.no_cache
    /\ promises = <<>>
    /\ awaited = 0
    /\ collected = <<>>
    /\ startTime = 0
    /\ searchResults = <<>>
    /\ mergedProducts = <<>>
    /\ enrichCalled = FALSE
    /\ result = <<>>
    /\ error = <<>>
    /\ fromCache = FALSE
    /\ calls = 0
    /\ advances = 0
    /\ bucketAtCall = bucket
    /\ prev = <<>>
    /\ arrivals = <<>>
    /\ libCall = <<>>
    /\ late = {}
    /\ grants = <<>>
    /\ cacheAtCall = cache

Init ==
    /\ InitProcess
    /\ registry = SourcePriority

\* the record of the call that has just completed
Completed == [key |-> CacheKey(query, options), pc |-> pc, result |-> result]

\* what every call of multiSourceSearch does first
Enter(q, o) ==
    /\ pc \in {"idle", "returned", "rejected"}
    /\ calls < MaxCalls
    /\ calls' = calls + 1
    /\ query' = q
    /\ options' = o
    /\ bucketAtCall' = bucket
    /\ prev' = IF pc = "idle" THEN prev ELSE <<Completed>>
    /\ late' = {}
    /\ cacheAtCall' = cache
    /\ UNCHANGED <<now, advances, registry, libCall, grants>>

\* multiSourceSearch(q, o) when cache.has(cacheKey) holds: up to the cache.get
CallCached(q, o) ==
    /\ Enter(q, o)
    /\ ~o.no_cache
    /\ CacheHas(cache, CacheKey(q, o), now)
    /\ pc' = "hit"
    /\ fromCache' = TRUE
    /\ promises' = <<>>
    /\ awaited' = 0
    /\ collected' = <<>>
    /\ startTime' = 0
    /\ searchResults' = <<>>
    /\ mergedProducts' = <<>>
    /\ enrichCalled' = FALSE
    /\ result' = <<>>
    /\ error' = <<>>
    /\ arrivals' = <<>>
    /\ UNCHANGED <<cache, bucket>>

\* the cache as the cache check of a call leaves it when it finds no entry
CacheAfterCheck(q, o) ==
    IF o.no_cache THEN cache ELSE CacheEvict(cache, CacheKey(q, o), now)

\* multiSourceSearch(q, o) when no requested source is registered
CallNoSources(q, o) ==
    /\ Enter(q, o)
    /\ o.no_cache \/ ~CacheHas(cache, CacheKey(q, o), now)
    /\ SelectedSources(o) = <<>>
    /\ fromCache' = FALSE
    /\ promises' = <<>>
    /\ awaited' = 0
    /\ collected' = <<>>
    /\ startTime' = 0
    /\ arrivals' = <<>>
    /\ Fail(NoSourcesError, CacheAfterCheck(q, o), bucket)

\* multiSourceSearch(q, o) when it dispatches: up to the await of the searches,
\* and beyond it when nothing is left to wait for. `exits` is whether the process
\* ends on an unhandled rejection (as Node 15 and later do by default) or goes on
CallFresh(q, o, exits) ==
    /\ Enter(q, o)
    /\ o.no_cache \/ ~CacheHas(cache, CacheKey(q, o), now)
    /\ SelectedSources(o) # <<>>
    /\ fromCache' = FALSE
    /\ arrivals' = <<>>
    /\ LET d == Dispatch(SearchSources(o), bucket, now)
       IN  /\ promises' = d.promises
           /\ startTime' = now
           /\ IF exits /\ UnhandledRejection(o, d.promises)
              THEN Crash(CacheAfterCheck(q, o), d.bucket)
              ELSE Await(q, o, now, d.promises, 1, <<>>, CacheAfterCheck(q, o), d.bucket)

\* the cached call returns cache.get(cacheKey)
ReturnCached ==
    /\ pc = "hit"
    /\ pc' = "returned"
    /\ result' = CacheGet(cache, CacheKey(query, options), now)
    /\ cache' = CacheEvict(cache, CacheKey(query, options), now)
    /\ UNCHANGED <<now, bucket, query, options, promises, awaited, collected, startTime,
                   searchResults, mergedProducts, enrichCalled, error, fromCache, calls,
                   advances, bucketAtCall, prev, registry, arrivals, libCall, late,
                   grants, cacheAtCall>>

\* promise i of searchPromises settles as p
Settle(i, p) ==
    /\ pc = "searching"
    /\ promises[i].state = "pending"
    /\ promises' = [promises EXCEPT ![i] = p]
    /\ arrivals' = Append(arrivals, i)
    /\ Await(query, options, startTime, [promises EXCEPT ![i] = p], awaited, collected,
             cache, bucket)
    /\ UNCHANGED <<now, query, options, startTime, fromCache, calls, advances,
                   bucketAtCall, prev, registry, libCall, late, grants,
                   cacheAtCall>>

Fulfilled(src, value) ==
    [source |-> src, state |-> "fulfilled", value |-> <<value>>, reason |-> <<>>]

Rejected(src, e) ==
    [source |-> src, state |-> "rejected", value |-> <<>>, reason |-> <<e>>]

\* the upstream service answers search i with n products before the timer
SearchAnswer(i, n) ==
    /\ i \in 1..Len(promises)
    /\ LET src == promises[i].source
       IN  Settle(i, Fulfilled(src, SearchSuccess(src, UpstreamIds(src, n), 0)))

\* the upstream request of search i fails before the timer
SearchFails(i, code) ==
    /\ i \in 1..Len(promises)
    /\ LET src == promises[i].source
       IN  Settle(i, Fulfilled(src, SearchFailure(src, code)))

\* the upstream answer of search i is malformed (its products are no array, or
\* hold no objects): the mapping throws a TypeError, which has no code
SearchMalformed(i) ==
    /\ i \in 1..Len(promises)
    /\ LET src == promises[i].source
       IN  Settle(i, Fulfilled(src, SearchFailure(src, "UNKNOWN")))

\* a timer whose fallback always throws
TimedOutThrows(src, o) == Rejected(src, TimeoutError(src))

\* what the pTimeout timer of a search makes of its promise
TimedOut(src, o) ==
    IF o.fallbackOnTimeout
    THEN Fulfilled(src, TimeoutResult(src, o.timeoutMs))
    ELSE Rejected(src, TimeoutError(src))

\* the pTimeout timer of search i fires; the timers were set in order with the
\* same delay, so the timers of the searches before it have fired
SearchTimeout(i) ==
    /\ i \in 1..Len(promises)
    /\ now >= startTime + options.timeoutMs
    /\ \A j \in 1..(i - 1) : promises[j].state # "pending"
    /\ Settle(i, TimedOut(promises[i].source, options))

\* a promise that takes every settlement of its input
RaceLastWins(p, settlement) == settlement

\* a promise settles once: the promise pTimeout returned, after its input promise
\* or its timer settles it as `settlement`
Race(p, settlement) == IF p.state = "pending" THEN settlement ELSE p

\* the adapter call of search i answers with n products after the timer of the
\* search has fired: the promise of pTimeout has settled, and no code of the call
\* runs on the answer
LateAnswer(i, n) ==
    /\ pc \in {"searching", "enriching", "returned", "rejected"}
    /\ ~fromCache
    /\ i \in 1..Len(promises)
    /\ i \notin late
    /\ promises[i].state # "pending"
    /\ promises[i] = TimedOut(promises[i].source, options)
    /\ late' = late \cup {i}
    /\ LET src == promises[i].source
       IN  promises' = [promises EXCEPT
                           ![i] = Race(@, Fulfilled(src, SearchSuccess(src,
                                                  UpstreamIds(src, n), 0)))]
    /\ UNCHANGED <<now, cache, bucket, pc, query, options, awaited, collected, startTime,
                   searchResults, mergedProducts, enrichCalled, result, error, fromCache,
                   calls, advances, bucketAtCall, prev, registry, arrivals, libCall,
                   grants, cacheAtCall>>

\* the enrichment the call awaits resolves to er
EnrichSettles(er) ==
    /\ pc = "enriching"
    /\ Finalize(query, options, startTime, searchResults,
                EnhanceProducts(mergedProducts, er), <<er>>, cache)
    /\ UNCHANGED <<now, bucket, query, options, promises, awaited, collected, startTime,
                   searchResults, mergedProducts, enrichCalled, fromCache, calls,
                   advances, bucketAtCall, prev, registry, arrivals, libCall, late,
                   grants, cacheAtCall>>

\* the enrichment service answers
EnrichAnswer(content) == EnrichSettles(EnrichSuccess(content, now))

\* the enrichment request fails or runs into its axios timeout
EnrichFails(code) == EnrichSettles(EnrichFailure(code, now))

\* time passes while the call awaits its searches or its enrichment: the search
\* timers fire timeoutMs after the dispatch, and the enrichment request has an axios
\* timeout of 2 * timeoutMs
Elapse(d) ==
    /\ \/ pc = "searching" /\ now + d <= startTime + options.timeoutMs
       \/ pc = "enriching" /\ now + d <= startTime + 3 * options.timeoutMs
    /\ advances < MaxAdvances
    /\ advances' = advances + 1
    /\ now' = now + d
    /\ UNCHANGED <<cache, bucket, pc, query, options, promises, awaited, collected,
                   startTime, searchResults, mergedProducts, enrichCalled, result, error,
                   fromCache, calls, bucketAtCall, prev, registry, arrivals, libCall,
                   late, grants, cacheAtCall>>

\* time passes between two calls
Idle(d) ==
    /\ pc \in {"returned", "rejected"}
    /\ calls < MaxCalls
    /\ advances < MaxAdvances
    /\ advances' = advances + 1
    /\ now' = now + d
    /\ UNCHANGED <<cache, bucket, pc, query, options, promises, awaited, collected,
                   startTime, searchResults, mergedProducts, enrichCalled, result, error,
                   fromCache, calls, bucketAtCall, prev, registry, arrivals, libCall,
                   late, grants, cacheAtCall>>

\* the clock ticks between cache.has and cache.get
Tick ==
    /\ pc = "hit"
    /\ advances < MaxAdvances
    /\ advances' = advances + 1
    /\ now' = now + 1
    /\ UNCHANGED <<cache, bucket, pc, query, options, promises, awaited, collected,
                   startTime, searchResults, mergedProducts, enrichCalled, result, error,
                   fromCache, calls, bucketAtCall, prev, registry, arrivals, libCall,
                   late, grants, cacheAtCall>>

\* the events of a call
CallStep ==
    \/ \E i \in 1..2, n \in 0..MaxProducts : SearchAnswer(i, n)
    \/ \E i \in 1..2, code \in UpstreamErrorCodes : SearchFails(i, code)
    \/ \E i \in 1..2 : SearchTimeout(i)
    \/ \E content \in EnrichContents : EnrichAnswer(content)
    \/ \E code \in UpstreamErrorCodes : EnrichFails(code)
    \/ \E d \in {options.timeoutMs} : Elapse(d)

\* one call, made with a cold cache at any moment of the life of the process
Next ==
    \/ \E q \in Queries, o \in Options : pc = "idle" /\ CallNoSources(q, o)
    \/ \E q \in Queries, o \in Options, exits \in BOOLEAN : pc = "idle" /\ CallFresh(q, o, exits)
    \/ CallStep
    \/ \E i \in 1..2 : SearchMalformed(i)
    \/ \E i \in 1..2, n \in 0..MaxProducts : LateAnswer(i, n)

Spec == Init /\ [][Next]_vars

\* a call whose timers run: time passes while the call waits, the pTimeout timer of
\* each search fires once it is due, and the axios timeout of the enrichment request
\* (ECONNABORTED) fires; no upstream service has to answer
SpecTimers ==
    /\ Spec
    /\ WF_vars(\E d \in {options.timeoutMs} : Elapse(d))
    /\ \A i \in 1..2 : WF_vars(SearchTimeout(i))
    /\ WF_vars(EnrichFails("ECONNABORTED"))

\* the process right after construction: every bucket is full
InitSession ==
    /\ Init
    /\ \A id \in Registered : bucket[id].tokens = MaxTokens[id]

\* a session of calls
NextSession ==
    \/ \E q \in Queries, o \in SessionRequests : CallCached(q, o)
    \/ \E q \in Queries, o \in SessionRequests : CallNoSources(q, o)
    \/ \E q \in Queries, o \in SessionRequests : CallFresh(q, o, TRUE)
    \/ ReturnCached
    \/ CallStep
    \/ \E d \in IdleSteps : Idle(d)
    \/ Tick

SpecSession == InitSession /\ [][NextSession]_vars

\* the requests of two calls that are to share a cache entry: a first request
\* without no_cache, and then the same request again, or with another value of
\* parallel, or with another merge strategy
KeyRequests ==
    IF calls = 0 THEN {o \in SessionOptions : ~o.no_cache}
    ELSE {[options EXCEPT !.parallel = p, !.mergeStrategy = m] :
             p \in BOOLEAN, m \in {options.mergeStrategy, "priority"}}

\* two calls, in one process, with these requests
NextKeys ==
    \/ \E q \in Queries, o \in KeyRequests : CallCached(q, o)
    \/ \E q \in Queries, o \in KeyRequests : CallNoSources(q, o)
    \/ \E q \in Queries, o \in KeyRequests : CallFresh(q, o, TRUE)
    \/ ReturnCached
    \/ CallStep
    \/ \E d \in IdleSteps : Idle(d)
    \/ Tick

SpecKeys == InitSession /\ [][NextKeys]_vars

\* a cached call, and then the same request again, with or without no_cache
StaleRequests ==
    IF calls = 0 THEN {o \in SessionOptions : ~o.no_cache}
    ELSE {[options EXCEPT !.no_cache = nc] : nc \in BOOLEAN}

\* the time between the two calls: a millisecond more than the time to live
StaleSteps == {CacheTtl * 1000 + 1}

\* two calls, the second of which may find the entry of the first expired
NextStale ==
    \/ \E q \in Queries, o \in StaleRequests : CallCached(q, o)
    \/ \E q \in Queries, o \in StaleRequests : CallNoSources(q, o)
    \/ \E q \in Queries, o \in StaleRequests : CallFresh(q, o, TRUE)
    \/ ReturnCached
    \/ CallStep
    \/ \E d \in StaleSteps : Idle(d)
    \/ Tick

SpecStale == InitSession /\ [][NextStale]_vars

\* the priorities the adapters are registered with: those of the adapters as they
\* are, and those with the first product service at priority 0
Registries == {SourcePriority, [SourcePriority EXCEPT !["serpapi"] = 0]}

\* the process right after construction, for each of these registries
InitRegistry ==
    /\ InitProcess
    /\ registry \in Registries
    /\ \A id \in Registered : bucket[id].tokens = MaxTokens[id]

\* one call, whatever the priorities of the registered adapters
SpecRegistry == InitRegistry /\ [][Next]_vars

----------------------------------------------------------------------------
(* mergeResults called directly (it is exported) *)

\* the results one source can hand in: its catch-block result, or an answer with
\* up to MergeMaxProducts products
ResultsOf(src) ==
    {SearchFailure(src, code) : code \in UpstreamErrorCodes}
        \cup {SearchSuccess(src, UpstreamIds(src, n), 0) : n \in 0..MergeMaxProducts}

\* the `results` arguments: the results of different sources, in any order
MergeInputs ==
    {rs \in UNION {[1..n -> UNION {ResultsOf(src) : src \in Registered}] : n \in 0..3} :
        \A i, j \in 1..Len(rs) : i # j => rs[i].source # rs[j].source}

\* the process before a direct call of mergeResults(results, ...)
InitMerge ==
    /\ now = 0
    /\ cache = <<>>
    /\ bucket = [id \in Registered |-> [tokens |-> MaxTokens[id], lastRefill |-> 0]]
    /\ pc = "idle"
    /\ query \in Queries
    /\ options = CHOOSE o \in Options : ~o.no_cache
    /\ promises = <<>>
    /\ awaited = 0
    /\ collected = <<>>
    /\ startTime = 0
    /\ searchResults \in MergeInputs
    /\ mergedProducts = <<>>
    /\ enrichCalled = FALSE
    /\ result = <<>>
    /\ error = <<>>
    /\ fromCache = FALSE
    /\ calls = 0
    /\ advances = 0
    /\ bucketAtCall = bucket
    /\ prev = <<>>
    /\ registry = SourcePriority
    /\ arrivals = <<>>
    /\ libCall = <<>>
    /\ late = {}
    /\ grants = <<>>
    /\ cacheAtCall = cache

\* mergeResults(searchResults, strategy, maxResults)
MergeCall(strategy, maxResults) ==
    /\ pc = "idle"
    /\ pc' = "merged"
    /\ options' = [options EXCEPT !.mergeStrategy = strategy, !.maxResults = maxResults]
    /\ mergedProducts' = MergeResults(searchResults, strategy, maxResults)
    /\ UNCHANGED <<now, cache, bucket, query, promises, awaited, collected, startTime,
                   searchResults, enrichCalled, result, error, fromCache, calls,
                   advances, bucketAtCall, prev, registry, arrivals, libCall, late,
                   grants, cacheAtCall>>

NextMerge ==
    \E strategy \in Strategies, maxResults \in 1..MergeMaxResults :
        MergeCall(strategy, maxResults)

SpecMerge == InitMerge /\ [][NextMerge]_vars

----------------------------------------------------------------------------
(* The methods of a tokenBucket and of a Cache called directly *)

\* what a direct call leaves alone
LibFrame ==
    /\ calls < MaxLibCalls
    /\ calls' = calls + 1
    /\ UNCHANGED <<now, pc, query, options, promises, awaited, collected, startTime,
                   searchResults, mergedProducts, enrichCalled, result, error, fromCache,
                   advances, bucketAtCall, prev, registry, arrivals, late,
                   cacheAtCall>>

\* rateLimiter.consume(count) of adapter id
LibConsume(id, count) ==
    /\ pc = "idle"
    /\ bucket' = [bucket EXCEPT ![id] = Consume(id, @, now, count)]
    /\ libCall' = <<[op |-> "consume", id |-> id, count |-> count, at |-> now,
                     before |-> bucket[id],
                     returned |-> ConsumeGranted(id, bucket[id], now, count)]>>
    /\ cache' = cache
    /\ grants' = grants
    /\ LibFrame

\* time passes between two direct calls
LibElapse(d) ==
    /\ pc = "idle"
    /\ advances < MaxAdvances
    /\ advances' = advances + 1
    /\ now' = now + d
    /\ UNCHANGED <<cache, bucket, pc, query, options, promises, awaited, collected,
                   startTime, searchResults, mergedProducts, enrichCalled, result, error,
                   fromCache, calls, bucketAtCall, prev, registry, arrivals, libCall,
                   late, grants, cacheAtCall>>

\* the times between two calls of consume: a millisecond, the refill interval of
\* the bucket
BucketSteps == {1, RefillInterval["perplexity"]}

\* the bucket of the enrichment adapter, the smallest, called directly
NextBucket ==
    \/ \E count \in 1..MaxCount : LibConsume("perplexity", count)
    \/ \E d \in BucketSteps : LibElapse(d)

SpecBucket == InitSession /\ [][NextBucket]_vars

\* rateLimiter.consume(count) of adapter id, one of the calls made of it while the
\* process runs: the calls are kept in grants
ConcurrentConsume(id, count) ==
    /\ pc = "idle"
    /\ bucket' = [bucket EXCEPT ![id] = Consume(id, @, now, count)]
    /\ libCall' = <<[op |-> "consume", id |-> id, count |-> count, at |-> now,
                     before |-> bucket[id],
                     returned |-> ConsumeGranted(id, bucket[id], now, count)]>>
    /\ cache' = cache
    /\ LET after == Consume(id, bucket[id], now, count)
       IN  grants' = Append(grants, [at         |-> now,
                                     count      |-> count,
                                     returned   |-> ConsumeGranted(id, bucket[id], now, count),
                                     tokens     |-> after.tokens,
                                     lastRefill |-> after.lastRefill])
    /\ LibFrame

\* the counts of these calls: the adapters consume 1, and some other caller 2
ConcurrentCounts == {1, 2}

\* the times between two of these calls: a millisecond, the refill interval of the
\* bucket, a millisecond less
ConcurrentSteps == {1, RefillInterval["perplexity"] - 1, RefillInterval["perplexity"]}

\* the process with the bucket of the enrichment adapter full or empty
InitConcurrent ==
    /\ Init
    /\ \A id \in Registered \ {"perplexity"} : bucket[id].tokens = MaxTokens[id]

\* calls of consume on that bucket, in any order and at any distance, also none:
\* a call runs from refillTokens to its return without an await, so the calls made
\* at the same time run one after the other
NextConcurrent ==
    \/ \E count \in ConcurrentCounts : ConcurrentConsume("perplexity", count)
    \/ \E d \in ConcurrentSteps : LibElapse(d)

SpecConcurrent == InitConcurrent /\ [][NextConcurrent]_vars

\* cache.set(key, value, ttl)
LibSet(key, value, ttl) ==
    /\ pc = "idle"
    /\ cache' = CacheSetTtl(cache, key, value, ttl, now)
    /\ libCall' = <<[op |-> "set", key |-> key, value |-> value, ttl |-> ttl,
                     at |-> now, before |-> cache]>>
    /\ bucket' = bucket
    /\ grants' = grants
    /\ LibFrame

\* cache.get(key)
LibGet(key) ==
    /\ pc = "idle"
    /\ cache' = CacheEvict(cache, key, now)
    /\ libCall' = <<[op |-> "get", key |-> key, at |-> now, before |-> cache,
                     returned |-> CacheGet(cache, key, now)]>>
    /\ bucket' = bucket
    /\ grants' = grants
    /\ LibFrame

\* cache.has(key)
LibHas(key) ==
    /\ pc = "idle"
    /\ cache' = CacheEvict(cache, key, now)
    /\ libCall' = <<[op |-> "has", key |-> key, at |-> now, before |-> cache,
                     returned |-> CacheHas(cache, key, now)]>>
    /\ bucket' = bucket
    /\ grants' = grants
    /\ LibFrame

\* the keys, the values and the custom ttl (in seconds) of the direct calls
LibKeys == {"a", "b"}
LibValues == {"v1", "v2"}
LibTtls == {<<>>, <<1>>}

\* the times between two calls of a Cache: a millisecond, the custom ttl, the
\* ttl of the Cache
CacheSteps == {1, 1000, CacheTtl * 1000}

\* a Cache constructed with the ttl of the composite cache, called directly
NextCache ==
    \/ \E key \in LibKeys, value \in LibValues, ttl \in LibTtls : LibSet(key, value, ttl)
    \/ \E key \in LibKeys : LibGet(key)
    \/ \E key \in LibKeys : LibHas(key)
    \/ \E d \in CacheSteps : LibElapse(d)

SpecCache == InitSession /\ [][NextCache]_vars

----------------------------------------------------------------------------
(* Properties *)

\* the call has returned a MultiSourceResult
Returned == pc = "returned" /\ result # <<>>

\* the call has returned a MultiSourceResult it built itself
ReturnedFresh == Returned /\ ~fromCache

\* promise i is the fallback value of its timer
TimedOutAt(i) ==
    /\ promises[i].state = "fulfilled"
    /\ promises[i].value[1].error # <<>>
    /\ promises[i].value[1].error[1].code = "TIMEOUT"

\* promise i rejected because its timer fired
TimeoutRejectedAt(i) ==
    /\ promises[i].state = "rejected"
    /\ promises[i].reason[1] = TimeoutError(promises[i].source)

\* promise i is an answer that arrived before the timer, with products
AnsweredAt(i) ==
    /\ promises[i].state = "fulfilled"
    /\ promises[i].value[1].error = <<>>
    /\ promises[i].value[1].products # <<>>

\* the bucket of the source of promise i had no token for its search
DeniedAt(i) ==
    ~ConsumeGranted(promises[i].source, bucketAtCall[promises[i].source], startTime, 1)

\* C1: every MultiSourceResult a call returns, fresh or from the cache, holds at
\* most maxResults products
C1_Bound == Returned => Len(result[1].products) <= options.maxResults

\* a call returns from the cache a result that the merge had to cut to maxResults
C1_Witness ==
    /\ Returned
    /\ fromCache
    /\ Len(result[1].products) = options.maxResults
    /\ SeqSum([i \in 1..Len(result[1].sources) |-> result[1].sources[i].count])
          > options.maxResults
    /\ Len(result[1].sources) = 2

\* C2: the product ids of a returned MultiSourceResult are pairwise distinct
C2_UniqueIds ==
    Returned =>
        \A i, j \in 1..Len(result[1].products) :
            i # j => result[1].products[i].id # result[1].products[j].id

\* C3: a MultiSourceResult built by the call has exactly one sources entry for each
\* selected source
C3_SummaryPerSelected ==
    ReturnedFresh =>
        /\ Len(result[1].sources) = Len(SelectedSources(options))
        /\ \A k \in 1..Len(SelectedSources(options)) :
              \E i \in 1..Len(result[1].sources) :
                  result[1].sources[i].id = SelectedSources(options)[k]

\* C4: a parallel call that has completed has waited for every search to settle
C4_AllSettled ==
    (options.parallel /\ pc \in {"returned", "rejected", "enriching"} /\ ~fromCache) =>
        \A i \in 1..Len(promises) : promises[i].state # "pending"

\* C5: with fallbackOnTimeout, the timeout of a search never rejects the call, and
\* in the result the call builds the timed-out source has a sources entry with the
\* error TIMEOUT and the count 0 and no product, while every source that answered
\* in time with products has products in the result
C5_TimeoutFallback ==
    options.fallbackOnTimeout =>
        /\ \A i \in 1..Len(promises) : ~TimeoutRejectedAt(i)
        /\ pc = "rejected" => error[1].errorMessage.message # TimeoutError("").message
        /\ ReturnedFresh =>
              \A i \in 1..Len(promises) :
                  /\ TimedOutAt(i) =>
                        /\ \E k \in 1..Len(result[1].sources) :
                              /\ result[1].sources[k].id = promises[i].source
                              /\ result[1].sources[k].count = 0
                              /\ result[1].sources[k].error # <<>>
                              /\ result[1].sources[k].error[1].code = "TIMEOUT"
                        /\ \A k \in 1..Len(result[1].products) :
                              result[1].products[k].source # promises[i].source
                  /\ (AnsweredAt(i) /\ \E j \in 1..Len(promises) : TimedOutAt(j)) =>
                        \E k \in 1..Len(result[1].products) :
                            result[1].products[k].source = promises[i].source

\* a call with fallbackOnTimeout returns the products of one source after the search
\* of the other timed out
C5_Witness ==
    /\ ReturnedFresh
    /\ options.fallbackOnTimeout
    /\ \E i, j \in 1..Len(promises) : TimedOutAt(i) /\ AnsweredAt(j)
    /\ result[1].products # <<>>

\* C6: without fallbackOnTimeout, a call one of whose searches timed out returns no
\* MultiSourceResult, parallel or not
C6_NoFallbackRejects ==
    (~options.fallbackOnTimeout /\ \E i \in 1..Len(promises) : TimeoutRejectedAt(i)) =>
        pc \notin {"returned", "enriching"}

\* C7: a search whose bucket has no token does not throw: its promise is fulfilled
\* with a result carrying the error RATE_LIMITED and no products
C7_RateLimitedResult ==
    (pc \in {"searching", "enriching", "returned", "rejected"} /\ ~fromCache) =>
        \A i \in 1..Len(promises) :
            DeniedAt(i) =>
                /\ promises[i].state = "fulfilled"
                /\ promises[i].value[1].products = <<>>
                /\ promises[i].value[1].error # <<>>
                /\ promises[i].value[1].error[1].code = "RATE_LIMITED"

\* the call before this one returned a MultiSourceResult for the same query and
\* options, without no_cache, and the entry it was cached under has not expired
RepeatedWithinTtl ==
    /\ pc = "returned"
    /\ ~options.no_cache
    /\ prev # <<>>
    /\ prev[1].pc = "returned"
    /\ prev[1].result # <<>>
    /\ prev[1].key = CacheKey(query, options)
    /\ now <= prev[1].result[1].timestamp + CacheTtl * 1000

\* C8: the second of two identical calls without no_cache, made within the TTL,
\* returns the MultiSourceResult of the first, and searches no source, consumes no
\* token and calls no enrichment
C8_CacheIdempotent ==
    RepeatedWithinTtl =>
        /\ result = prev[1].result
        /\ fromCache
        /\ promises = <<>>
        /\ ~enrichCalled
        /\ bucket = bucketAtCall

\* the repeated call returns, some time later, a result with products and enrichment
C8_Witness ==
    /\ RepeatedWithinTtl
    /\ result # <<>>
    /\ result[1].products # <<>>
    /\ result[1].enrichment # <<>>
    /\ now > result[1].timestamp

\* C9: a call with no_cache leaves the composite cache as it is at every step, and
\* never takes the cache-hit path
C9_NoCacheFrame ==
    [][(options'.no_cache /\ pc' # "idle") =>
           (cache' = cache /\ pc' # "hit" /\ ~fromCache')]_vars

\* a call with no_cache returns a result while the cache holds an entry
C9_Witness ==
    /\ Returned
    /\ options.no_cache
    /\ DOMAIN cache # {}
    /\ promises # <<>>

\* C10: the result a call returns after its enrichment failed has no enrichment and
\* the merged products as they were
C10_EnrichmentIsolation ==
    (ReturnedFresh /\ enrichCalled
        /\ (result[1].enrichment = <<>> \/ result[1].enrichment[1].error # <<>>)) =>
        /\ result[1].enrichment = <<>>
        /\ result[1].products = mergedProducts

\* C11: a call none of whose requested ids is registered fails at once with an error
\* of code NO_VALID_SOURCES, and searches no source, consumes no token and calls no
\* enrichment; a call that dispatches searches only requested, registered ids
C11_NoValidSources ==
    (pc # "idle" /\ ~fromCache) =>
        /\ \A i \in 1..Len(promises) :
              /\ promises[i].source \in Registered
              /\ \E k \in 1..Len(options.sources) : options.sources[k] = promises[i].source
        /\ (\A k \in 1..Len(options.sources) : options.sources[k] \notin Registered) =>
              /\ pc = "rejected"
              /\ error[1].errorCode = "NO_VALID_SOURCES"
              /\ promises = <<>>
              /\ bucket = bucketAtCall
              /\ ~enrichCalled

\* the registered ids among the requested ones
KnownRequested ==
    {options.sources[k] : k \in 1..Len(options.sources)} \cap Registered

\* the sources whose search the call has called
Called == {promises[i].source : i \in 1..Len(promises)}

\* C12: a call dispatches exactly the searches of the maxParallel requested adapters
\* of lowest priority number, whatever the priority numbers are, 0 included
C12_LowestPriorities ==
    (pc # "idle" /\ ~fromCache) =>
        \E D \in SUBSET KnownRequested :
            /\ Cardinality(D) = Min(options.maxParallel, Cardinality(KnownRequested))
            /\ \A d \in D, k \in KnownRequested \ D : registry[d] < registry[k]
            /\ Called = {d \in D : HasSearch(d)}

\* the valid results among searchResults, in ascending order of priority
ByPriority ==
    LET valid == SelectSeq(searchResults, IsValidResult)
    IN  CHOOSE s \in [1..Len(valid) -> {valid[i] : i \in 1..Len(valid)}] :
            /\ \A i \in 1..Len(valid) : \E j \in 1..Len(valid) : s[j] = valid[i]
            /\ \A i, j \in 1..Len(valid) :
                  i < j => registry[s[i].source] < registry[s[j].source]

\* the products of rank r of the results k.. of `sorted`, the exhausted ones skipped
RECURSIVE RoundOf(_, _, _)
RoundOf(sorted, r, k) ==
    IF k > Len(sorted) THEN <<>>
    ELSE (IF r <= Len(sorted[k].products) THEN <<sorted[k].products[r]>> ELSE <<>>)
            \o RoundOf(sorted, r, k + 1)

\* the rounds r.. of the round robin over `sorted`
RECURSIVE RoundRobin(_, _)
RoundRobin(sorted, r) ==
    IF \A k \in 1..Len(sorted) : Len(sorted[k].products) < r THEN <<>>
    ELSE RoundOf(sorted, r, 1) \o RoundRobin(sorted, r + 1)

\* the product lists of `sorted`, one after the other
RECURSIVE Concatenation(_)
Concatenation(sorted) ==
    IF sorted = <<>> THEN <<>>
    ELSE Head(sorted).products \o Concatenation(Tail(sorted))

C14_Sequential ==
    (pc = "merged" /\ options.mergeStrategy = "sequential") =>
        mergedProducts = Take(Concatenation(ByPriority), options.maxResults)

\* the same A and B: with maxResults 4 sequential returns a1, a2, a3, b1
C14_Witness ==
    /\ pc = "merged"
    /\ options.mergeStrategy = "sequential"
    /\ options.maxResults = 4
    /\ searchResults = <<SearchSuccess("search1api", UpstreamIds("search1api", 2), 0),
                         SearchSuccess("serpapi", UpstreamIds("serpapi", 3), 0)>>
    /\ mergedProducts = <<Product(1, "serpapi"), Product(2, "serpapi"),
                          Product(3, "serpapi"), Product(1, "search1api")>>

\* C15: priority returns the products of the valid result whose adapter has the
\* lowest priority number, whatever the priority numbers are, 0 included, cut to
\* maxResults, and nothing of the other results
C15_Priority ==
    (pc \in {"merged", "enriching", "returned"} /\ ~fromCache
        /\ options.mergeStrategy = "priority") =>
        mergedProducts =
            IF ByPriority = <<>> THEN <<>>
            ELSE Take(ByPriority[1].products, options.maxResults)

\* the promise is fulfilled
IsFulfilled(p) == p.state = "fulfilled"

\* what the searches of the call answered, in the order of searchPromises
Outputs ==
    LET settled == SelectSeq(promises, IsFulfilled)
    IN  [i \in 1..Len(settled) |-> settled[i].value[1]]

\* the place of a source in the selection of the call
PlaceOf(src) ==
    CHOOSE k \in 1..Len(SelectedSources(options)) : SelectedSources(options)[k] = src

\* what the merge strategy of the call makes of the valid results, whatever the
\* order they come in
MergedByPriority ==
    CASE options.mergeStrategy = "sequential" -> Concatenation(ByPriority)
      [] options.mergeStrategy = "priority" ->
            IF ByPriority = <<>> THEN <<>> ELSE ByPriority[1].products
      [] OTHER -> RoundRobin(ByPriority, 1)

\* C16: the results a call merges are the answers of its searches in the order of
\* searchPromises, whatever the order they arrived in, the merge leaves that list
\* as it is and returns what the strategy makes of the answers by priority, and the
\* sources entries of the result follow the order of the selection
C16_ArrivalOrder ==
    (pc \in {"enriching", "returned"} /\ ~fromCache) =>
        /\ searchResults = Outputs
        /\ mergedProducts = Take(MergedByPriority, options.maxResults)
        /\ \A i, j \in 1..Len(searchResults) :
              i < j => PlaceOf(searchResults[i].source) < PlaceOf(searchResults[j].source)
        /\ pc = "returned" =>
              /\ Len(result[1].sources) = Len(Outputs)
              /\ \A i \in 1..Len(Outputs) : result[1].sources[i].id = Outputs[i].source

\* a parallel call returns the merge of two answers with products of which the
\* second arrived first
C16_Witness ==
    /\ ReturnedFresh
    /\ options.parallel
    /\ arrivals = <<2, 1>>
    /\ \A i \in 1..2 : AnsweredAt(i)
    /\ Len(result[1].products) = 2

\* the last direct call was a consume
Consumed == libCall # <<>> /\ libCall[1].op = "consume"

\* the tokens a bucket holds at time t, refilled lazily: one token every refill
\* interval since lastRefill, up to maxTokens
Available(id, b, t) ==
    LET refilled == b.tokens + (t - b.lastRefill) \div RefillInterval[id]
    IN  IF refilled > MaxTokens[id] THEN MaxTokens[id] ELSE refilled

\* C17: consume(n) refills for the elapsed time, then returns true and takes n
\* tokens if the bucket holds n, and otherwise returns false and takes none
C17_Consume ==
    Consumed =>
        LET c     == libCall[1]
            avail == Available(c.id, c.before, c.at)
        IN  IF avail >= c.count
            THEN c.returned /\ bucket[c.id].tokens = avail - c.count
            ELSE ~c.returned /\ bucket[c.id].tokens = avail

\* a consume is denied after a refill: the bucket keeps the token the refill added
C17_Witness ==
    /\ Consumed
    /\ ~libCall[1].returned
    /\ libCall[1].at > libCall[1].before.lastRefill
    /\ bucket[libCall[1].id].tokens > libCall[1].before.tokens
    /\ bucket[libCall[1].id].tokens > 0

\* the entry of the key of the last direct call was there and not past its expiry
\* time when the call was made
LiveBefore ==
    /\ libCall[1].key \in DOMAIN libCall[1].before
    /\ libCall[1].at <= libCall[1].before[libCall[1].key].expires

\* the entries of the other keys are as they were before the last direct call
OthersKept ==
    \A k \in (DOMAIN libCall[1].before \cup DOMAIN cache) \ {libCall[1].key} :
        /\ k \in DOMAIN libCall[1].before
        /\ k \in DOMAIN cache
        /\ cache[k] = libCall[1].before[k]

\* C18: get and has find an entry up to its expiry time and leave it there; past
\* its expiry time they find nothing and remove it; set replaces the whole entry of
\* its key, whose expiry time is then the ttl later
C18_CacheExpiry ==
    libCall # <<>> =>
        LET c == libCall[1]
        IN  /\ c.op = "get" =>
                  /\ c.returned = IF LiveBefore THEN <<c.before[c.key].value>> ELSE <<>>
                  /\ IF LiveBefore THEN cache = c.before ELSE c.key \notin DOMAIN cache
                  /\ OthersKept
            /\ c.op = "has" =>
                  /\ c.returned = LiveBefore
                  /\ IF LiveBefore THEN cache = c.before ELSE c.key \notin DOMAIN cache
                  /\ OthersKept
            /\ c.op = "set" =>
                  /\ c.key \in DOMAIN cache
                  /\ cache[c.key] =
                        [value   |-> c.value,
                         expires |-> c.at + 1000 * (IF c.ttl = <<>> THEN CacheTtl
                                                    ELSE c.ttl[1])]
                  /\ OthersKept

\* a get past the expiry time of an entry returns nothing and removes the entry
C18_Witness ==
    /\ libCall # <<>>
    /\ libCall[1].op = "get"
    /\ libCall[1].key \in DOMAIN libCall[1].before
    /\ libCall[1].at > libCall[1].before[libCall[1].key].expires
    /\ libCall[1].returned = <<>>
    /\ libCall[1].key \notin DOMAIN cache

\* promise i is the result of the catch block of a search
FailedAt(i) ==
    /\ promises[i].state = "fulfilled"
    /\ promises[i].value[1].error # <<>>
    /\ promises[i].value[1].error[1].code \in UpstreamErrorCodes \cup {"UNKNOWN"}

AllFailed ==
    /\ pc # "idle"
    /\ ~fromCache
    /\ promises # <<>>
    /\ \A i \in 1..Len(promises) : FailedAt(i) \/ TimedOutAt(i)

\* C20: a call all of whose searches failed does not reject: it returns a result
\* with no products and no enrichment, in which every sources entry has an error
C20_TotalFailure ==
    AllFailed =>
        /\ Returned
        /\ result[1].products = <<>>
        /\ result[1].enrichment = <<>>
        /\ ~enrichCalled
        /\ Len(result[1].sources) = Len(promises)
        /\ \A k \in 1..Len(result[1].sources) : result[1].sources[k].error # <<>>

\* a call with enrichment requested returns after the upstream request of one
\* search failed and the timer of the other fired
C20_Witness ==
    /\ AllFailed
    /\ Returned
    /\ options.includeEnrichment
    /\ \E i, j \in 1..Len(promises) : FailedAt(i) /\ TimedOutAt(j)

\* the searches of the call that have not settled
InFlight == {i \in 1..Len(promises) : promises[i].state = "pending"}

\* C21: a call with parallel = false has at most one search in flight at any time,
\* and the result it builds collects every search that answered, whatever became of
\* the searches before it
C21_OneInFlight ==
    (~options.parallel /\ pc # "idle" /\ ~fromCache) =>
        /\ Cardinality(InFlight) <= 1
        /\ pc \in {"enriching", "returned"} => searchResults = Outputs

\* C22: the answer of an adapter call that arrives after the timer of its search
\* has fired changes nothing of the call: not the promise the timer settled, not
\* the results collected or merged so far, not the MultiSourceResult the call
\* returned or the error it rejected with, and no entry of the composite cache
C22_LateDiscarded ==
    [][(calls' = calls /\ late' # late) =>
           /\ promises' = promises
           /\ searchResults' = searchResults
           /\ mergedProducts' = mergedProducts
           /\ result' = result
           /\ error' = error
           /\ pc' = pc
           /\ cache' = cache]_vars

\* a call has returned and cached the products of one source and the TIMEOUT entry
\* of the other, whose adapter call has answered since
C22_Witness ==
    /\ ReturnedFresh
    /\ ~options.no_cache
    /\ late = {1}
    /\ Len(promises) = 2
    /\ TimedOutAt(1)
    /\ AnsweredAt(2)
    /\ result[1].sources[1].error # <<>>
    /\ result[1].sources[1].error[1].code = "TIMEOUT"
    /\ CacheGet(cache, CacheKey(query, options), now) = result

\* a call that has come to wait for its searches or for its enrichment eventually
\* returns a result or rejects, whether the upstream services answer or not
WaitsAreBounded ==
    (pc \in {"searching", "enriching"}) ~> (pc \in {"returned", "rejected"})

\* C23: every call of multiSourceSearch eventually returns a result or rejects,
\* whether the upstream services answer or not
C23_EveryCall ==
    (calls > 0) ~> (pc \in {"returned", "rejected"})

\* C24: a call that merged its searches calls enrich exactly when includeEnrichment
\* is set, the merged list is not empty and an adapter with enrich is registered;
\* the products it returns are the merged ones, as many, in the same order, with
\* the same ids and sources, all but the first untouched, and the first is
\* annotated only with the content and the citations of an enrichment that succeeded
C24_Enrichment ==
    (pc \in {"enriching", "returned"} /\ ~fromCache) =>
        /\ enrichCalled <=>
              /\ options.includeEnrichment
              /\ mergedProducts # <<>>
              /\ \E id \in Registered : HasEnrich(id)
        /\ pc = "returned" =>
              /\ Len(result[1].products) = Len(mergedProducts)
              /\ \A k \in 1..Len(mergedProducts) :
                    /\ result[1].products[k].id = mergedProducts[k].id
                    /\ result[1].products[k].source = mergedProducts[k].source
                    /\ k > 1 => result[1].products[k] = mergedProducts[k]
              /\ (mergedProducts # <<>> /\ result[1].products[1] # mergedProducts[1]) =>
                    /\ enrichCalled
                    /\ result[1].enrichment # <<>>
                    /\ result[1].enrichment[1].error = <<>>
                    /\ result[1].products[1] =
                          [mergedProducts[1] EXCEPT
                              !.description = result[1].enrichment[1].content,
                              !.enriched = TRUE,
                              !.citations = result[1].enrichment[1].citations]

\* a call returns two products after its enrichment succeeded: the first is
\* annotated, the second is as it was merged
C24_Witness ==
    /\ ReturnedFresh
    /\ enrichCalled
    /\ Len(result[1].products) = 2
    /\ result[1].enrichment # <<>>
    /\ result[1].enrichment[1].content # ""
    /\ result[1].products[1].enriched
    /\ result[1].products[1].description = result[1].enrichment[1].content
    /\ result[1].products[2] = mergedProducts[2]
    /\ ~result[1].products[2].enriched

\* the bucket called directly
Direct == "perplexity"

\* the bucket right after the direct call i of consume; call 0 is its construction
BucketAfter(i) ==
    IF i = 0 THEN [at |-> 0, tokens |-> bucketAtCall[Direct].tokens, lastRefill |-> 0]
    ELSE [at |-> grants[i].at, tokens |-> grants[i].tokens,
          lastRefill |-> grants[i].lastRefill]

\* the successful consumes of 1 token among the calls i+1 .. j
GrantedOnes(i, j) ==
    Cardinality({k \in (i + 1)..j : grants[k].returned /\ grants[k].count = 1})

\* the tokens the calls i+1 .. j took
TokensTaken(i, j) ==
    SeqSum([k \in 1..(j - i) |->
               IF grants[i + k].returned THEN grants[i + k].count ELSE 0])

\* the bucket always holds between 0 and maxTokens tokens
WithinCapacity ==
    \A id \in Registered : bucket[id].tokens >= 0 /\ bucket[id].tokens <= MaxTokens[id]

\* C25 as stated: the bucket always holds between 0 and maxTokens tokens, and over
\* the period from one consume to a later one the successful consumes of 1 token
\* are at most the tokens held at its start plus floor(elapsed / refillInterval)
C25_ElapsedBound ==
    /\ WithinCapacity
    /\ \A i \in 0..Len(grants), j \in 0..Len(grants) :
          i <= j =>
              GrantedOnes(i, j) <=
                  BucketAfter(i).tokens
                      + (BucketAfter(j).at - BucketAfter(i).at) \div RefillInterval[Direct]

\* C25: the bucket always holds between 0 and maxTokens tokens, and over the period
\* from one consume to a later one the consumes take at most the tokens held at its
\* start plus floor((elapsed + accrued) / refillInterval), where accrued is the time
\* since lastRefill at the start of the period, less than one refill interval
C25_NoDoubleSpend ==
    /\ WithinCapacity
    /\ \A i \in 0..Len(grants), j \in 0..Len(grants) :
          i <= j =>
              /\ BucketAfter(i).at - BucketAfter(i).lastRefill < RefillInterval[Direct]
              /\ GrantedOnes(i, j) <= TokensTaken(i, j)
              /\ TokensTaken(i, j) <=
                    BucketAfter(i).tokens
                        + (BucketAfter(j).at - BucketAfter(i).lastRefill)
                              \div RefillInterval[Direct]

\* two consumes of 1 token at the same time, a millisecond before the next token of
\* the empty bucket is due, are denied, and of two more a millisecond later one is
\* granted
C25_Witness ==
    /\ Len(grants) = 4
    /\ \A k \in 1..4 : grants[k].count = 1
    /\ grants[1].at = grants[2].at
    /\ ~grants[1].returned /\ ~grants[2].returned
    /\ grants[2].tokens = 0
    /\ grants[2].at - grants[2].lastRefill = RefillInterval[Direct] - 1
    /\ grants[3].at = grants[2].at + 1
    /\ grants[4].at = grants[3].at
    /\ grants[3].returned /\ ~grants[4].returned
    /\ bucket[Direct].tokens = 0

\* the two option objects agree on sources, mergeStrategy and maxResults (no call
\* of the model passes filters)
SameFive(o1, o2) ==
    /\ o1.sources = o2.sources
    /\ o1.mergeStrategy = o2.mergeStrategy
    /\ o1.maxResults = o2.maxResults

\* the call follows, within the TTL, a call for the same query that returned and
\* cached a MultiSourceResult, and neither was made with no_cache
FollowsCached ==
    /\ pc \in {"hit", "searching", "enriching", "returned", "rejected"}
    /\ prev # <<>>
    /\ prev[1].pc = "returned"
    /\ prev[1].result # <<>>
    /\ prev[1].key[1] = query
    /\ ~prev[1].key[2].no_cache
    /\ ~options.no_cache
    /\ now < prev[1].result[1].timestamp + CacheTtl * 1000

\* C26: the second of two such calls uses the cache entry of the first exactly when
\* the two agree on sources, mergeStrategy and maxResults, whatever their other
\* options are
C26_KeyOfFive ==
    FollowsCached => (fromCache <=> SameFive(prev[1].key[2], options))

\* C27: mergeResults called with a strategy that is none of interleave, sequential
\* and priority returns what it returns for interleave on the same results and
\* maxResults
C27_DefaultIsInterleave ==
    (pc = "merged" /\ options.mergeStrategy \notin {"interleave", "sequential", "priority"}) =>
        mergedProducts = MergeResults(searchResults, "interleave", options.maxResults)

\* the same A and B: with maxResults 4 the strategy newest returns a1, b1, a2, b2,
\* which neither sequential nor priority returns
C27_Witness ==
    /\ pc = "merged"
    /\ options.mergeStrategy = "newest"
    /\ options.maxResults = 4
    /\ searchResults = <<SearchSuccess("search1api", UpstreamIds("search1api", 2), 0),
                         SearchSuccess("serpapi", UpstreamIds("serpapi", 3), 0)>>
    /\ mergedProducts = <<Product(1, "serpapi"), Product(1, "search1api"),
                          Product(2, "serpapi"), Product(3, "search1api")>>
    /\ mergedProducts # MergeResults(searchResults, "sequential", options.maxResults)
    /\ mergedProducts # MergeResults(searchResults, "priority", options.maxResults)

\* C28: a call that took the cache-hit path returns a MultiSourceResult, never
\* undefined, whatever the time between its cache.has and its cache.get
C28_HitReturnsResult ==
    (pc = "returned" /\ fromCache) => result # <<>>

\* the call rejected: no requested source is registered, or a search timed out
\* without fallback, or an adapter call rejected
HardFailure == pc = "rejected" /\ ~fromCache

\* C29 as stated: a call that ends in a hard failure leaves the composite cache as
\* it was when the call was made
C29_FailureKeepsCache ==
    HardFailure => cache = cacheAtCall

\* C29: a call that ends in a hard failure writes and replaces no entry, leaves the
\* entries of the other keys as they are, and removes nothing but the entry of its
\* own key when that entry has expired and the call was made without no_cache
C29_FailureKeepsLive ==
    HardFailure =>
        LET key == CacheKey(query, options)
        IN  /\ \A k \in (DOMAIN cacheAtCall \cup DOMAIN cache) \ {key} :
                  /\ k \in DOMAIN cacheAtCall
                  /\ k \in DOMAIN cache
                  /\ cache[k] = cacheAtCall[k]
            /\ key \in DOMAIN cache =>
                  /\ key \in DOMAIN cacheAtCall
                  /\ cache[key] = cacheAtCall[key]
            /\ (key \in DOMAIN cacheAtCall /\ key \notin DOMAIN cache) =>
                  /\ ~options.no_cache
                  /\ cacheAtCall[key].expires < now

\* a call rejects on the timeout of its search after its cache check has removed
\* the expired entry of an earlier call
C29_Witness ==
    /\ HardFailure
    /\ promises # <<>>
    /\ TimeoutRejectedAt(1)
    /\ CacheKey(query, options) \in DOMAIN cacheAtCall
    /\ cache = <<>>

\* the result has no products and an error in every sources entry
TotalFailure(r) ==
    /\ r.products = <<>>
    /\ r.sources # <<>>
    /\ \A k \in 1..Len(r.sources) : r.sources[k].error # <<>>

\* C30: a call without no_cache that has built and returned a MultiSourceResult
\* has stored it under its key, for the time to live from its timestamp on, also
\* when it is a total failure; and the same call made again within that time returns the
\* stored total failure and searches no source and consumes no token
C30_FailuresAreCached ==
    /\ (ReturnedFresh /\ ~options.no_cache) =>
          /\ CacheKey(query, options) \in DOMAIN cache
          /\ cache[CacheKey(query, options)] =
                [value |-> result[1], expires |-> result[1].timestamp + CacheTtl * 1000]
    /\ (RepeatedWithinTtl /\ TotalFailure(prev[1].result[1])) =>
          /\ fromCache
          /\ result = prev[1].result
          /\ promises = <<>>
          /\ bucket = bucketAtCall

\* the repeated call returns, some time later, the stored total failure of the
\* first, whose search had failed
C30_Witness ==
    /\ RepeatedWithinTtl
    /\ fromCache
    /\ result # <<>>
    /\ TotalFailure(result[1])
    /\ result[1].sources[1].error[1].code \in UpstreamErrorCodes
    /\ now > result[1].timestamp

====
